---------------------------- MODULE Spec2Model ----------------------------
(***************************************************************************)
(* Model of the car/fob black-box test harness (src/testing/conftest.py):  *)
(* the `deploy` factory fixture in hardware and simulation mode, the       *)
(* DeployedDevice handle and the fixture's cleanup.                        *)
(*                                                                         *)
(* One behaviour is one test: the fixture is set up, the test calls        *)
(* deploy() some number of times (each call runs _deploy step by step,     *)
(* interleaved with the freshly started device emitting its startup        *)
(* line), may call close() on devices it holds, then the fixture's         *)
(* cleanup runs.  An exception raised by _deploy ends the test and control *)
(* passes to the code after the fixture's `yield`.  (Spec)                 *)
(*                                                                         *)
(* SpecCodec applies the pure functions of src/testing/protocol.py         *)
(* (parse_response, the FLASH_DATA records, the hex transport) to inputs   *)
(* drawn from bounded sets.  SpecChannel starts where deploy has returned  *)
(* its first device and lets the test call send, recv, send_recv and       *)
(* cmd_enable on it.                                                       *)
(***************************************************************************)
EXTENDS Integers, Sequences, FiniteSets, TLC

(***************************************************************************)
(* Bounds of the model.                                                    *)
(***************************************************************************)
\* number of deploy() calls one test may make
MaxCalls == 3
\* number of serial ports given with --using platform@port1,port2
NumPorts == 2
\* number of times the test itself may call close() on one device
MaxTestClose == 1

(***************************************************************************)
(* Program constants.                                                      *)
(***************************************************************************)
DEFAULT_BAUD == 115200
DEFAULT_TIMEOUT == 1
\* `if exe_idx >= 2` and VirtualSerialPorts(2)
MaxSimDevices == 2

Modes == {"hardware", "simulation"}
Roles == {"car", "paired_fob", "unpaired_fob"}

(***************************************************************************)
(* Lines.  A line is a sequence of one-character strings; "xFF" stands for *)
(* a byte outside ASCII and "uFFFD" for the replacement character that     *)
(* decode('ascii', errors='replace') puts in its place.                    *)
(***************************************************************************)
NoLine == <<"NONE">>
Empty == <<>>
OK == <<"O", "K">>
OkStarted == <<"O", "K", ":", " ", "s", "t", "a", "r", "t", "e", "d">>
Whitespace == {" ", "\n", "\r", "\t"}

\* what a freshly started device may write as its first line (raw bytes)
StartupLines ==
  { OkStarted \o <<"\n">>,
    <<"O", "K", "\n">>,
    <<"O", "K", "A", "Y", "\n">>,
    <<" ">> \o OkStarted \o <<"\r", "\n">>,
    <<"E", "R", "R", "O", "R", ":", " ", "b", "o", "o", "t", "\n">>,
    <<"xFF", "g", "\n">>,
    <<"o", "k", "\n">> }

\* bytes.decode('ascii', errors='replace')
decode(bytes) == [i \in 1..Len(bytes) |-> IF bytes[i] = "xFF" THEN "uFFFD" ELSE bytes[i]]

RECURSIVE lstrip(_)
lstrip(s) == IF s # <<>> /\ Head(s) \in Whitespace THEN lstrip(Tail(s)) ELSE s

RECURSIVE rstrip(_)
rstrip(s) ==
  IF s # <<>> /\ s[Len(s)] \in Whitespace THEN rstrip(SubSeq(s, 1, Len(s) - 1)) ELSE s

\* str.strip()
strip(s) == rstrip(lstrip(s))

\* str.startswith(prefix)
startswith(s, prefix) == Len(s) >= Len(prefix) /\ SubSeq(s, 1, Len(prefix)) = prefix

(***************************************************************************)
(* State.                                                                  *)
(***************************************************************************)
VARIABLES
  mode,       \* hardware_config given or not
  pc,         \* position of the test: fixture, test, the steps of _deploy, teardown, done
  calls,      \* deploy() calls made by the test so far
  port_idx,   \* nonlocal port_idx (hardware)
  exe_idx,    \* nonlocal exe_idx (simulation)
  deployed,   \* the list `deployed`: device ids in the order appended
  host_vsps,  \* the list `host_vsps`: link ids
  devs,       \* every DeployedDevice constructed, by id
  sers,       \* every serial.Serial object opened, by id
  links,      \* every VirtualSerialPorts object created, by id; the board link is 1
  procs,      \* every forked simulator process, by pid
  cur,        \* the locals of the _deploy call in progress (or of the last one)
  held,       \* ids of the devices deploy() has returned to the test
  failure,    \* the exception that ended the test, if any: stage and cause
  td_idx,     \* position of the cleanup loop `for d in deployed`
  nbuild,     \* build subprocess invocations
  nflash,     \* flash subprocess invocations
  fn,         \* the codec function applied last: its name, argument and result
  io,         \* the device end of a deployed channel and the last send/recv call on it
  proj        \* one run of project.py: its command line, parsed arguments and position

vars == <<mode, pc, calls, port_idx, exe_idx, deployed, host_vsps, devs, sers,
          links, procs, cur, held, failure, td_idx, nbuild, nflash, fn, io, proj>>

\* no codec function applied yet
NoFn == [op |-> "none", arg |-> <<>>, res |-> <<>>]

\* no channel call made yet, nothing pending on the device side.  Commands
\* are numbered as they are sent; `tags` and `outtags` give, for each line in
\* the input buffer and for each line the device has still to write, the
\* number of the command it answers, `rtag` the one of the line returned.
NoIO == [n |-> 0, out |-> <<>>, nsent |-> 0, sent |-> NoLine, op |-> "none", arg |-> <<>>,
         timeout |-> -1, result |-> NoLine, error |-> "none",
         tags |-> <<>>, outtags |-> <<>>, rtag |-> 0]

\* project.py not started
NoProj == [pc |-> "idle", origin |-> "none", argv |-> <<>>, error |-> "none", args |-> <<>>,
           configs |-> [none |-> FALSE, list |-> <<>>], i |-> 0, steps |-> <<>>,
           build_result |-> -1, rc |-> -1]

\* the state of the fixture, its devices and their resources
hvars == <<mode, pc, calls, port_idx, exe_idx, deployed, host_vsps, devs, sers,
           links, procs, cur, held, failure, td_idx, nbuild, nflash>>

NoFailure == [stage |-> "None", cause |-> NoLine]

\* locals of a _deploy call at its entry
NewCall(cfg) ==
  [cfg |-> cfg, port |-> 0, builds |-> 0, rc |-> 0, flashes |-> 0, frc |-> 0, binary |-> FALSE,
   ser |-> 0, vsp |-> 0, board_port |-> 0, pid |-> 0, pending |-> NoLine, discarded |-> FALSE,
   dev |-> 0]

\* (variant: the link is created and opened but start() is not called)
NewLink_unstarted(kind) ==
  [kind |-> kind, nports |-> MaxSimDevices, started |-> FALSE, stops |-> 0, closes |-> 0]

\* VirtualSerialPorts(2); open(); start()
NewLink(kind) == [kind |-> kind, nports |-> MaxSimDevices, started |-> TRUE, stops |-> 0, closes |-> 0]

\* serial.Serial(port, DEFAULT_BAUD, timeout=DEFAULT_TIMEOUT)
NewSerial(port, link) ==
  [port |-> port, link |-> link, baud |-> DEFAULT_BAUD, timeout |-> DEFAULT_TIMEOUT,
   open |-> TRUE, buf |-> <<>>, reads |-> 0, startup |-> NoLine]

Init ==
  /\ mode \in Modes
  /\ pc = "fixture"
  /\ calls = 0
  /\ port_idx = 0
  /\ exe_idx = 0
  /\ deployed = <<>>
  /\ host_vsps = <<>>
  /\ devs = <<>>
  /\ sers = <<>>
  /\ links = <<>>
  /\ procs = <<>>
  /\ cur = NewCall("car")
  /\ held = {}
  /\ failure = NoFailure
  /\ td_idx = 1
  /\ nbuild = 0
  /\ nflash = 0
  /\ fn = NoFn
  /\ io = NoIO
  /\ proj = NoProj

(***************************************************************************)
(* An exception leaves _deploy and the test; the fixture resumes after its *)
(* yield.                                                                  *)
(***************************************************************************)
Raise(stage, cause) ==
  /\ failure' = [stage |-> stage, cause |-> cause]
  /\ pc' = "teardown"

(***************************************************************************)
(* deploy fixture, before the yield.                                       *)
(***************************************************************************)
SetupFixture ==
  /\ pc = "fixture"
  /\ pc' = "test"
  /\ port_idx' = 0
  /\ exe_idx' = 0
  /\ links' = IF mode = "simulation" THEN <<NewLink("board")>> ELSE links
  /\ UNCHANGED <<fn, io, proj, mode, calls, deployed, host_vsps, devs, sers, procs, cur, held,
                 failure, td_idx, nbuild, nflash>>

(***************************************************************************)
(* _deploy: entry.  Hardware takes the next port of the list, simulation   *)
(* checks exe_idx; both raise when the session's wiring is used up.        *)
(***************************************************************************)
\* port_idx >= len(hardware_config.ports)
hw_exhausted(idx) == idx >= NumPorts

\* (variant: the bound is checked one call too late)
sim_exhausted_late(idx) == idx > MaxSimDevices

\* exe_idx >= 2
sim_exhausted(idx) == idx >= MaxSimDevices

DeployCall(cfg) ==
  /\ pc = "test"
  /\ calls < MaxCalls
  /\ calls' = calls + 1
  /\ IF mode = "hardware"
       THEN IF hw_exhausted(port_idx)
              THEN /\ Raise("PortsExhausted", NoLine)
                   /\ cur' = NewCall(cfg)
                   /\ UNCHANGED port_idx
              ELSE /\ cur' = [NewCall(cfg) EXCEPT !.port = port_idx + 1]
                   /\ port_idx' = port_idx + 1
                   /\ pc' = "build"
                   /\ UNCHANGED failure
       ELSE IF sim_exhausted(exe_idx)
              THEN /\ Raise("TopologyExhausted", NoLine)
                   /\ cur' = NewCall(cfg)
                   /\ UNCHANGED port_idx
              ELSE /\ cur' = NewCall(cfg)
                   /\ pc' = "build"
                   /\ UNCHANGED <<port_idx, failure>>
  /\ UNCHANGED <<fn, io, proj, mode, exe_idx, deployed, host_vsps, devs, sers, links, procs,
                 held, td_idx, nbuild, nflash>>

(***************************************************************************)
(* build_role: one subprocess.run of `project.py build`; a non-zero return *)
(* code raises.                                                            *)
(***************************************************************************)
\* (variant: the return code of the build is not looked at)
build_failed_ignored(rc) == FALSE

\* result.returncode != 0
build_failed(rc) == rc # 0

Build(rc) ==
  /\ pc = "build"
  /\ nbuild' = nbuild + 1
  /\ cur' = [cur EXCEPT !.builds = @ + 1, !.rc = rc, !.binary = ~build_failed(rc)]
  /\ IF build_failed(rc)
       THEN Raise("Building", NoLine)
       ELSE /\ pc' = IF mode = "hardware" THEN "flash" ELSE "provision"
            /\ UNCHANGED failure
  /\ UNCHANGED <<fn, io, proj, mode, calls, port_idx, exe_idx, deployed, host_vsps, devs, sers,
                 links, procs, held, td_idx, nflash>>

(***************************************************************************)
(* flash_hardware: one subprocess.run of `project.py flash`; a non-zero    *)
(* return code raises.  A flashed board boots and will write `line`.       *)
(***************************************************************************)
\* (variant: the return code of the flash is not looked at)
flash_failed_ignored(rc) == FALSE

\* result.returncode != 0
flash_failed(rc) == rc # 0

Flash(rc, line) ==
  /\ pc = "flash"
  /\ nflash' = nflash + 1
  /\ IF flash_failed(rc)
       THEN /\ cur' = [cur EXCEPT !.flashes = @ + 1, !.frc = rc]
            /\ Raise("Provisioning", NoLine)
       ELSE /\ cur' = [cur EXCEPT !.flashes = @ + 1, !.frc = rc, !.pending = line]
            /\ pc' = "open"
            /\ UNCHANGED failure
  /\ UNCHANGED <<fn, io, proj, mode, calls, port_idx, exe_idx, deployed, host_vsps, devs, sers,
                 links, procs, held, td_idx, nbuild>>

\* hardware: ser = serial.Serial(port, DEFAULT_BAUD, timeout=DEFAULT_TIMEOUT)
OpenSerial ==
  /\ pc = "open"
  /\ sers' = Append(sers, NewSerial(cur.port, 0))
  /\ cur' = [cur EXCEPT !.ser = Len(sers) + 1]
  /\ pc' = "reset"
  /\ UNCHANGED <<fn, io, proj, mode, calls, port_idx, exe_idx, deployed, host_vsps, devs, links,
                 procs, held, failure, td_idx, nbuild, nflash>>

\* hardware: time.sleep(0.1); ser.reset_input_buffer()
ResetInput ==
  /\ pc = "reset"
  /\ sers' = [sers EXCEPT ![cur.ser].buf = <<>>]
  /\ cur' = [cur EXCEPT !.discarded = sers[cur.ser].buf # <<>>]
  /\ pc' = "read"
  /\ UNCHANGED <<fn, io, proj, mode, calls, port_idx, exe_idx, deployed, host_vsps, devs, links,
                 procs, held, failure, td_idx, nbuild, nflash>>

(***************************************************************************)
(* simulation: allocate the host link, take the board port of this exe,    *)
(* open the test end of the host link and clear its input.                 *)
(***************************************************************************)
\* (variant: every exe is given the first board port)
board_port_first(idx) == 1

\* board_ports[exe_idx], ports counted from 1
board_port(idx) == idx + 1

\* test_port, exe_host_port = host_vsp.ports
test_port == 1
exe_host_port == 2

ProvisionSim ==
  /\ pc = "provision"
  /\ links' = Append(links, NewLink("host"))
  /\ host_vsps' = Append(host_vsps, Len(links) + 1)
  /\ IF board_port(exe_idx) \in 1..links[1].nports
       THEN /\ exe_idx' = exe_idx + 1
            /\ sers' = Append(sers, NewSerial(test_port, Len(links) + 1))
            /\ cur' = [cur EXCEPT !.vsp = Len(links) + 1, !.board_port = board_port(exe_idx),
                                  !.ser = Len(sers) + 1]
            /\ pc' = "fork"
            /\ UNCHANGED failure
       ELSE \* board_ports[exe_idx] raises IndexError
            /\ cur' = [cur EXCEPT !.vsp = Len(links) + 1]
            /\ Raise("IndexError", NoLine)
            /\ UNCHANGED <<exe_idx, sers>>
  /\ UNCHANGED <<fn, io, proj, mode, calls, port_idx, deployed, devs, procs, held, td_idx,
                 nbuild, nflash>>

\* the child of os.fork(): execv(binary, [binary, host=<exe_host_port>, board=<exe_board_port>])
NewProc(host, board) ==
  [state |-> "running", host |-> host, host_port |-> exe_host_port, board |-> board,
   signals |-> 0, kill_dead |-> 0]

\* simulation: os.fork(); the child execs the binary with host= and board= arguments
Fork(line) ==
  /\ pc = "fork"
  /\ procs' = Append(procs, NewProc(cur.vsp, cur.board_port))
  /\ cur' = [cur EXCEPT !.pid = Len(procs) + 1, !.pending = line]
  /\ pc' = "read"
  /\ UNCHANGED <<fn, io, proj, mode, calls, port_idx, exe_idx, deployed, host_vsps, devs, sers,
                 links, held, failure, td_idx, nbuild, nflash>>

(***************************************************************************)
(* The device being deployed writes its startup line.  What a board writes *)
(* while no Serial is open on its port is lost; a simulator process writes *)
(* into the host link, whose test end is already open.                     *)
(***************************************************************************)
DeviceEmit ==
  /\ pc \in {"open", "reset", "read"}
  /\ cur.pending # NoLine
  /\ cur' = [cur EXCEPT !.pending = NoLine]
  /\ sers' = IF cur.ser # 0 THEN [sers EXCEPT ![cur.ser].buf = Append(@, cur.pending)]
                            ELSE sers
  /\ UNCHANGED <<fn, io, proj, mode, pc, calls, port_idx, exe_idx, deployed, host_vsps, devs,
                 links, procs, held, failure, td_idx, nbuild, nflash>>

(***************************************************************************)
(* Handshake: one readline() with the Serial's timeout (an empty result on *)
(* timeout), decoded and stripped; unless it starts with "OK" the call     *)
(* raises, otherwise the DeployedDevice is built, appended and returned.   *)
(***************************************************************************)
\* ser.readline(): the next buffered line, or b"" when the timeout expires
readline(ser) == IF ser.buf = <<>> THEN Empty ELSE Head(ser.buf)

\* (variant: the startup line is read but not checked)
started_ok_unchecked(startup) == TRUE

\* (variant: only a timeout is taken as a failed handshake)
started_ok_nonempty(startup) == startup # Empty

\* startup.startswith("OK")
started_ok(startup) == startswith(startup, OK)

Handshake ==
  /\ pc = "read"
  /\ LET ser == sers[cur.ser]
         startup == strip(decode(readline(ser)))
         id == Len(devs) + 1
     IN /\ sers' = [sers EXCEPT ![cur.ser].buf = IF @ = <<>> THEN @ ELSE Tail(@),
                                ![cur.ser].reads = @ + 1,
                                ![cur.ser].startup = startup]
        /\ IF ~started_ok(startup)
             THEN /\ Raise("AwaitingHandshake", startup)
                  /\ UNCHANGED <<devs, deployed, held, cur>>
             ELSE /\ devs' = Append(devs, [role |-> cur.cfg, serial |-> cur.ser,
                                           platform |-> IF mode = "hardware" THEN "hw" ELSE "x86",
                                           pid |-> cur.pid,
                                           vsp |-> IF mode = "hardware" THEN 0 ELSE cur.vsp,
                                           closes |-> 0, testcloses |-> 0,
                                           steps |-> <<>>, swallowed |-> "none"])
                  /\ deployed' = Append(deployed, id)
                  /\ held' = held \cup {id}
                  /\ cur' = [cur EXCEPT !.dev = id]
                  /\ pc' = "test"
                  /\ UNCHANGED failure
  /\ UNCHANGED <<fn, io, proj, mode, calls, port_idx, exe_idx, host_vsps, links, procs, td_idx,
                 nbuild, nflash>>

(***************************************************************************)
(* A simulator process may exit on its own at any time; until it is waited *)
(* for it stays a zombie.                                                  *)
(***************************************************************************)
ProcExit(p) ==
  /\ procs[p].state = "running"
  /\ procs' = [procs EXCEPT ![p].state = "zombie"]
  /\ UNCHANGED <<fn, io, proj, mode, pc, calls, port_idx, exe_idx, deployed, host_vsps, devs, sers,
                 links, cur, held, failure, td_idx, nbuild, nflash>>

(***************************************************************************)
(* DeployedDevice.close().                                                 *)
(*   serial.close()                                                        *)
(*   if _pid: kill SIGTERM, sleep, kill SIGKILL (OSError swallowed);       *)
(*            waitpid(WNOHANG) (OSError swallowed)                         *)
(*   if _vsp: stop(), close()                                              *)
(* os.kill on a child that has exited but was not waited for succeeds;     *)
(* on a pid that was already waited for it fails with OSError, which skips *)
(* the second kill.  waitpid(WNOHANG) collects the process only if it has  *)
(* exited by then.  What the operating system does is given by `env`:      *)
(* env.exit says when a process that is running at the first signal exits  *)
(* (within the grace period, on SIGKILL before waitpid looks, or only      *)
(* after waitpid has looked), env.errno is the error of os.kill on a pid   *)
(* that is no longer a child (no such process, or a process of another     *)
(* user that was given the same pid).                                      *)
(***************************************************************************)
CloseEnvs == [exit : {"grace", "killed", "late"}, errno : {"ESRCH", "EPERM"}]

kill_and_reap(p, env) ==
  IF p.state = "reaped"
    THEN p
    ELSE [p EXCEPT !.signals = @ + 2,
                   \* SIGKILL is sent to a process that has exited by then
                   !.kill_dead = @ + (IF p.state = "zombie" \/ env.exit = "grace" THEN 1 ELSE 0),
                   !.state = IF p.state = "zombie" \/ env.exit # "late" THEN "reaped"
                                                                         ELSE "zombie"]

\* self._vsp.stop(); self._vsp.close()
release(l) == [l EXCEPT !.started = FALSE, !.stops = @ + 1, !.closes = @ + 1]

\* (variant: the owned link is stopped and closed before the process is signalled)
close_steps_link_first(dev, reaped) ==
  <<"serial.close">>
    \o (IF dev.vsp = 0 THEN <<>> ELSE <<"vsp.stop", "vsp.close">>)
    \o (IF dev.pid = 0 THEN <<>>
        ELSE IF reaped THEN <<"SIGTERM:OSError", "waitpid:OSError">>
        ELSE <<"SIGTERM", "sleep", "SIGKILL", "waitpid">>)

\* the calls close() makes, in the order of its statements; `reaped` says
\* that the pid was already waited for, so that os.kill raises at once
close_steps(dev, reaped) ==
  <<"serial.close">>
    \o (IF dev.pid = 0 THEN <<>>
        ELSE IF reaped THEN <<"SIGTERM:OSError", "waitpid:OSError">>
        ELSE <<"SIGTERM", "sleep", "SIGKILL", "waitpid">>)
    \o (IF dev.vsp = 0 THEN <<>> ELSE <<"vsp.stop", "vsp.close">>)

\* the pid of the device was already waited for
is_reaped(dev) == dev.pid # 0 /\ procs[dev.pid].state = "reaped"

close(d, env) ==
  /\ sers' = [sers EXCEPT ![devs[d].serial].open = FALSE]
  /\ procs' = IF devs[d].pid # 0
                THEN [procs EXCEPT ![devs[d].pid] = kill_and_reap(@, env)]
                ELSE procs
  /\ links' = IF devs[d].vsp # 0
                THEN [links EXCEPT ![devs[d].vsp] = release(@)]
                ELSE links

\* the handle after close(): what it did is noted on it, and the error of
\* os.kill that `except OSError: pass` swallowed
closed(dev, env) ==
  [dev EXCEPT !.closes = @ + 1,
              !.steps = close_steps(dev, is_reaped(dev)),
              !.swallowed = IF is_reaped(dev) THEN env.errno ELSE "none"]

\* the test itself calls close() on a device it was given
TestClose(d) ==
  /\ pc = "test"
  /\ d \in held
  /\ devs[d].testcloses < MaxTestClose
  /\ \E env \in CloseEnvs :
       /\ close(d, env)
       /\ devs' = [devs EXCEPT ![d] = [closed(@, env) EXCEPT !.testcloses = @ + 1]]
  /\ UNCHANGED <<fn, io, proj, mode, pc, calls, port_idx, exe_idx, deployed, host_vsps, cur, held,
                 failure, td_idx, nbuild, nflash>>

\* the test body returns
TestEnd ==
  /\ pc = "test"
  /\ pc' = "teardown"
  /\ UNCHANGED <<fn, io, proj, mode, calls, port_idx, exe_idx, deployed, host_vsps, devs, sers,
                 links, procs, cur, held, failure, td_idx, nbuild, nflash>>

(***************************************************************************)
(* deploy fixture, after the yield: close every device of `deployed`, then *)
(* (simulation only) stop and close the board link.                        *)
(***************************************************************************)
\* (variant: the loop stops one element early)
cleanup_pending_short(idx, list) == idx < Len(list)

\* for d in deployed: the loop has a next element
cleanup_pending(idx, list) == idx <= Len(list)

TeardownClose ==
  /\ pc = "teardown"
  /\ cleanup_pending(td_idx, deployed)
  /\ \E env \in CloseEnvs :
       /\ close(deployed[td_idx], env)
       /\ devs' = [devs EXCEPT ![deployed[td_idx]] = closed(@, env)]
  /\ td_idx' = td_idx + 1
  /\ UNCHANGED <<fn, io, proj, mode, pc, calls, port_idx, exe_idx, deployed, host_vsps, cur, held,
                 failure, nbuild, nflash>>

TeardownBoard ==
  /\ pc = "teardown"
  /\ ~cleanup_pending(td_idx, deployed)
  /\ links' = IF mode = "simulation" THEN [links EXCEPT ![1] = release(@)] ELSE links
  /\ pc' = "done"
  /\ UNCHANGED <<fn, io, proj, mode, calls, port_idx, exe_idx, deployed, host_vsps, devs, sers,
                 procs, cur, held, failure, td_idx, nbuild, nflash>>

Next ==
  \/ SetupFixture
  \/ \E cfg \in Roles : DeployCall(cfg)
  \/ \E rc \in {0, 1} : Build(rc)
  \/ \E rc \in {0, 1}, line \in StartupLines : Flash(rc, line)
  \/ OpenSerial
  \/ ResetInput
  \/ ProvisionSim
  \/ \E line \in StartupLines : Fork(line)
  \/ DeviceEmit
  \/ Handshake
  \/ \E p \in DOMAIN procs : ProcExit(p)
  \/ \E d \in DOMAIN devs : TestClose(d)
  \/ TestEnd
  \/ TeardownClose
  \/ TeardownBoard

Spec == Init /\ [][Next]_vars

(***************************************************************************)
(* Properties.                                                             *)
(***************************************************************************)
Deployed == {deployed[i] : i \in DOMAIN deployed}
TeardownCloses(d) == devs[d].closes - devs[d].testcloses

\* C1: every Device that is in `deployed` or was returned to the test has
\* had its startup line read from its channel, and the line read passed the
\* handshake check, in hardware and in simulation mode.
C1_ReturnedDeviceIsHandshaken ==
  \A d \in held \cup Deployed :
    /\ d \in DOMAIN devs
    /\ sers[devs[d].serial].reads >= 1
    /\ sers[devs[d].serial].startup # NoLine
    /\ startswith(sers[devs[d].serial].startup, OK)

C1_Witness ==
  /\ mode = "hardware"
  /\ Cardinality(held) = 2
  /\ Len(deployed) = 2

\* C2 (as claimed): at the end of teardown every virtual link created in
\* the session has been stopped and closed exactly once, and a link is
\* stopped only after every Device that references it has been closed.
C2_EveryLinkReleasedOnce ==
  /\ pc = "done" => \A l \in DOMAIN links : links[l].stops = 1 /\ links[l].closes = 1
  /\ \A l \in DOMAIN links :
       links[l].stops > 0 =>
         \A d \in DOMAIN devs : (devs[d].vsp = l \/ l = 1) => ~sers[devs[d].serial].open

\* C3 (as claimed): after teardown no simulator process launched by a
\* deploy call of the test is still running.
C3_NoProcessAfterTeardown ==
  pc = "done" => \A p \in DOMAIN procs : procs[p].state # "running"

\* C4 (as claimed): the board link is stopped only after every deployed
\* Device has been closed, and never while a simulator process that was
\* given one of its endpoints is still running.
C4_BoardLinkReleasedLast ==
  (mode = "simulation" /\ links # <<>> /\ links[1].stops > 0) =>
    /\ \A d \in Deployed : devs[d].closes > 0
    /\ \A p \in DOMAIN procs : procs[p].state # "running"

\* C5: when a deploy call fails, no Device is returned for that call, the
\* test does not go on, and by the end of teardown close() has run on every
\* Device an earlier deploy call returned.
C5_FailFastAndTeardown ==
  failure.stage # "None" =>
    /\ cur.dev = 0
    /\ pc \in {"teardown", "done"}
    /\ pc = "done" => \A d \in DOMAIN devs : TeardownCloses(d) = 1

C5_Witness ==
  /\ pc = "done"
  /\ failure.stage = "AwaitingHandshake"
  /\ Len(devs) = 1
  /\ devs[1].closes = 1

\* C6: in simulation mode, once two devices are deployed, a further deploy
\* call raises the usage error and changes nothing else: no build, no link,
\* no process, no serial object, the two devices and the lists unchanged.
C6_ThirdSimDeviceIsUsageError ==
  [][(calls' = calls + 1 /\ mode = "simulation" /\ Len(deployed) = 2) =>
       /\ failure'.stage = "TopologyExhausted"
       /\ pc' = "teardown"
       /\ UNCHANGED <<exe_idx, deployed, host_vsps, devs, sers, links, procs, held,
                      nbuild, nflash>>]_vars

C6_Witness ==
  /\ mode = "simulation"
  /\ failure.stage = "TopologyExhausted"
  /\ Len(deployed) = 2
  /\ nbuild = 2

\* C7 (as claimed): a virtual link is released at most once; a second
\* release is rejected and leaves the link as it was.
C7_LinkReleasedAtMostOnce ==
  \A l \in DOMAIN links : links[l].stops <= 1 /\ links[l].closes <= 1

\* C8 (as claimed): a Device is returned only if the first line read from
\* its channel equals `OK: started`.
C8_StartupLineEqualsOkStarted ==
  \A d \in DOMAIN devs : sers[devs[d].serial].startup = OkStarted

\* C9: the handshake reads exactly one line, with the bounded default
\* timeout, and whenever the line read (decoded and stripped, empty on a
\* timeout) does not begin with `OK` the deploy call has failed at the
\* handshake with that line as cause, no Device was built on that channel
\* and nothing was added to `deployed`.
C9_BadStartupLineFailsDeploy ==
  \A s \in DOMAIN sers :
    /\ sers[s].reads <= 1
    /\ sers[s].timeout = DEFAULT_TIMEOUT
    /\ (s # cur.ser \/ pc \in {"test", "teardown", "done"}) => sers[s].reads = 1
    /\ (sers[s].reads = 1 /\ ~startswith(sers[s].startup, OK)) =>
         /\ failure = [stage |-> "AwaitingHandshake", cause |-> sers[s].startup]
         /\ cur.dev = 0
         /\ \A d \in DOMAIN devs : devs[d].serial # s
         /\ Len(deployed) = Len(devs)

C9_Witness ==
  /\ failure.stage = "AwaitingHandshake"
  /\ failure.cause = Empty
  /\ sers[cur.ser].reads = 1
  /\ Len(deployed) = 1

\* C10: when the build returns non-zero the deploy call fails at Building:
\* the build ran once and nothing followed it (no flash, no serial port, no
\* host link, no process, no Device).
C10_BuildFailureStopsDeploy ==
  /\ nbuild <= calls
  /\ (cur.builds > 0 /\ cur.rc # 0) =>
       /\ failure.stage = "Building"
       /\ cur.builds = 1
       /\ cur.flashes = 0
       /\ cur.ser = 0
       /\ cur.vsp = 0
       /\ cur.pid = 0
       /\ cur.dev = 0
       /\ ~cur.binary

C10_Witness ==
  /\ failure.stage = "Building"
  /\ cur.rc # 0
  /\ pc = "done"
  /\ Len(deployed) = 1

\* C11: in hardware mode, when the flash returns non-zero the deploy call
\* fails at Provisioning: the flash ran once, no Serial was opened on the
\* port of that device (so no handshake read), and no Device was returned.
C11_FlashFailureStopsDeploy ==
  /\ nflash <= calls
  /\ (cur.flashes > 0 /\ cur.frc # 0) =>
       /\ mode = "hardware"
       /\ failure.stage = "Provisioning"
       /\ cur.flashes = 1
       /\ cur.ser = 0
       /\ cur.dev = 0
       /\ cur.pending = NoLine
       /\ \A s \in DOMAIN sers : sers[s].port # cur.port

C11_Witness ==
  /\ mode = "hardware"
  /\ failure.stage = "Provisioning"
  /\ cur.frc # 0
  /\ cur.port = 2
  /\ pc = "done"
  /\ Len(deployed) = 1

\* C18 (as claimed): a close() on a device that was already closed changes
\* nothing: not the channel, not the process (no signal again), not the
\* virtual link (not stopped or closed again).
C18_SecondCloseHasNoEffect ==
  [][\A d \in DOMAIN devs :
       (devs[d].closes >= 1 /\ devs'[d].closes > devs[d].closes) =>
         (sers' = sers /\ procs' = procs /\ links' = links)]_vars

\* C20: in simulation mode a simulator process is launched only when the
\* board link exists and is started (and not stopped), and it is given a
\* board endpoint of that link.
C20_BoardLinkBeforeProcess ==
  [][Len(procs') > Len(procs) =>
       /\ mode = "simulation"
       /\ Len(links) >= 1
       /\ links[1].kind = "board"
       /\ links[1].started
       /\ links[1].stops = 0
       /\ procs'[Len(procs')].board \in 1..links[1].nports]_vars

C20_Witness ==
  /\ Len(procs) = 2
  /\ procs[1].board = 1
  /\ procs[2].board = 2
  /\ links[1].started

ProcessSteps == {"SIGTERM", "SIGTERM:OSError", "sleep", "SIGKILL", "waitpid", "waitpid:OSError"}
LinkSteps == {"vsp.stop", "vsp.close"}

\* the steps of the last close() of every closed device come in the order:
\* channel, then process (SIGTERM, sleep, SIGKILL, waitpid), then owned link
CloseOrder ==
  \A d \in DOMAIN devs :
    devs[d].closes >= 1 =>
      LET s == devs[d].steps
      IN /\ s # <<>> /\ s[1] = "serial.close"
         /\ \A i \in DOMAIN s : s[i] = "serial.close" => i = 1
         /\ \A i, j \in DOMAIN s : (s[i] \in ProcessSteps /\ s[j] \in LinkSteps) => i < j
         /\ \A i, j \in DOMAIN s : (s[i] = "SIGTERM" /\ s[j] = "sleep") => i < j
         /\ \A i, j \in DOMAIN s : (s[i] = "sleep" /\ s[j] = "SIGKILL") => i < j
         /\ \A i, j \in DOMAIN s : (s[i] = "SIGKILL" /\ s[j] = "waitpid") => i < j
         /\ \A i, j \in DOMAIN s : (s[i] = "vsp.stop" /\ s[j] = "vsp.close") => i < j
         /\ devs[d].pid # 0 => \E i \in DOMAIN s : s[i] \in {"SIGTERM", "SIGTERM:OSError"}
         /\ devs[d].vsp # 0 => \E i \in DOMAIN s : s[i] = "vsp.stop"

\* C21 (as claimed): close() closes the channel, sends the graceful signal,
\* waits, sends the forceful signal only if the process is still alive, and
\* stops and closes the owned link only after the process teardown.
C21_ForcefulSignalOnlyIfAlive ==
  /\ CloseOrder
  /\ \A p \in DOMAIN procs : procs[p].kill_dead = 0

\* C21 (amended): close() closes the channel, sends the graceful signal,
\* waits, sends the forceful signal whenever the graceful one was delivered
\* (whether or not the process has exited meanwhile), and stops and closes
\* the owned link only after the process teardown.
C21_CloseOrderFixed ==
  /\ CloseOrder
  /\ \A d \in DOMAIN devs :
       (\E i \in DOMAIN devs[d].steps : devs[d].steps[i] = "SIGTERM") <=>
         (\E i \in DOMAIN devs[d].steps : devs[d].steps[i] = "SIGKILL")
  /\ \A p \in DOMAIN procs : procs[p].signals = 2 * ((procs[p].signals + 1) \div 2)

C21_Witness ==
  /\ Len(devs) >= 1
  /\ devs[1].steps = <<"serial.close", "SIGTERM", "sleep", "SIGKILL", "waitpid",
                       "vsp.stop", "vsp.close">>
  /\ procs[devs[1].pid].kill_dead = 1
  /\ procs[devs[1].pid].state = "reaped"
  /\ ~links[devs[1].vsp].started

\* C22 (as claimed): when close() has returned, the process the device owns
\* has been waited for and is not left a zombie, whatever the timing.
C22_CloseReapsProcess ==
  \A d \in DOMAIN devs :
    (devs[d].closes >= 1 /\ devs[d].pid # 0) => procs[devs[d].pid].state = "reaped"

\* C23 (as claimed): close() swallows an error of the signalling only when
\* it says that the process is already gone; any other error (permission)
\* is not swallowed.
C23_OnlyGoneErrorSwallowed ==
  \A d \in DOMAIN devs : devs[d].swallowed \in {"none", "ESRCH"}

\* C25: no two Devices share a channel endpoint.  Simulation: each channel
\* is the test end of the device's own host link, the process has the other
\* end of the same link and a board endpoint no other process has, and the
\* harness opens no endpoint of the board link.  Hardware: every deploy call
\* uses another entry of the port list.
C25_EndpointsNotShared ==
  /\ \A d1, d2 \in DOMAIN devs :
       d1 # d2 =>
         /\ devs[d1].serial # devs[d2].serial
         /\ <<sers[devs[d1].serial].link, sers[devs[d1].serial].port>>
              # <<sers[devs[d2].serial].link, sers[devs[d2].serial].port>>
  /\ \A s1, s2 \in DOMAIN sers :
       s1 # s2 => <<sers[s1].link, sers[s1].port>> # <<sers[s2].link, sers[s2].port>>
  /\ mode = "simulation" =>
       /\ \A s \in DOMAIN sers :
            /\ sers[s].link \in DOMAIN links
            /\ links[sers[s].link].kind = "host"
            /\ sers[s].port = test_port
       /\ \A d \in DOMAIN devs :
            /\ devs[d].vsp = sers[devs[d].serial].link
            /\ procs[devs[d].pid].host = devs[d].vsp
            /\ procs[devs[d].pid].host_port = exe_host_port
       /\ \A p1, p2 \in DOMAIN procs :
            p1 # p2 => procs[p1].board # procs[p2].board /\ procs[p1].host # procs[p2].host
       /\ \A p \in DOMAIN procs : procs[p].board \in 1..links[1].nports
  /\ mode = "hardware" =>
       /\ \A s \in DOMAIN sers : sers[s].link = 0 /\ sers[s].port \in 1..NumPorts
       /\ procs = <<>>

C25_Witness ==
  /\ mode = "simulation"
  /\ Len(devs) = 2
  /\ procs[devs[1].pid].board = 1
  /\ procs[devs[2].pid].board = 2
  /\ sers[devs[1].serial].link = 2
  /\ sers[devs[2].serial].link = 3

C25_WitnessHardware ==
  /\ mode = "hardware"
  /\ Len(devs) = 2
  /\ sers[devs[1].serial].port = 1
  /\ sers[devs[2].serial].port = 2

PyNone == <<"None">>
OkPrefix == <<"O", "K", ":", " ">>
ErrorWord == <<"E", "R", "R", "O", "R">>
ErrorPrefix == <<"E", "R", "R", "O", "R", ":", " ">>
UnparseablePrefix == <<"U", "n", "p", "a", "r", "s", "e", "a", "b", "l", "e", ":", " ">>
Garbage == <<"g", "a", "r", "b", "a", "g", "e">>

\* line[n:]
from_index(line, n) == SubSeq(line, n + 1, Len(line))

Response(success, value, error) == [success |-> success, value |-> value, error |-> error]

\* (variant: the value form is recognised by `OK:` without the space)
ok_value_form_nospace(line) == startswith(line, <<"O", "K", ":">>)

\* line.startswith("OK: ")
ok_value_form(line) == startswith(line, OkPrefix)

\* (variant: the error form is recognised by the word ERROR alone)
error_form_loose(line) == startswith(line, ErrorWord)

\* line.startswith("ERROR: ")
error_form(line) == startswith(line, ErrorPrefix)

\* (variant: the raw line is the error)
unparseable_raw(line) == line

\* f"Unparseable: {line}"
unparseable(line) == UnparseablePrefix \o line

parse_response(input) ==
  LET line == strip(input)
  IN IF startswith(line, OK) /\ line = OK
       THEN Response(TRUE, PyNone, PyNone)
       ELSE IF startswith(line, OK) /\ ok_value_form(line)
              THEN Response(TRUE, from_index(line, 4), PyNone)
              ELSE IF error_form(line)
                     THEN Response(FALSE, PyNone, from_index(line, 7))
                     ELSE Response(FALSE, PyNone, unparseable(line))

\* the lines parse_response is applied to: optional surrounding whitespace,
\* a head and a short tail
LineLead == {<<>>, <<" ">>, <<"\t", " ">>}
LineHead == {<<>>, OK, <<"O", "K", ":">>, OkPrefix, <<"O", "K", "A", "Y">>, <<"o", "k">>,
             ErrorWord, <<"E", "R", "R", "O", "R", ":">>, ErrorPrefix, <<"E", "R", "R">>,
             Garbage}
TailChars == {"5", " ", ":", "b"}
MaxTail == 2
LineTail == UNION {[1..n -> TailChars] : n \in 0..MaxTail}
LineEnd == {<<>>, <<"\n">>, <<" ", "\r", "\n">>}
ResponseInputs ==
  {a \o h \o t \o e : a \in LineLead, h \in LineHead, t \in LineTail, e \in LineEnd}

\* ^OK(: (.*))?$ and ^ERROR(: (.*))?$ on a line without inner line breaks
MatchesOkForm(line) == line = OK \/ startswith(line, OkPrefix)
MatchesErrorForm(line) == line = ErrorWord \/ startswith(line, ErrorPrefix)

ParseResponse(line) ==
  /\ fn = NoFn
  /\ fn' = [op |-> "parse_response", arg |-> line, res |-> parse_response(line)]
  /\ UNCHANGED <<hvars, io, proj>>

(***************************************************************************)
(* Hex transport: bytes.hex() and bytes.fromhex().  A byte string is a     *)
(* sequence of numbers 0..255, a hex string a sequence of characters.      *)
(***************************************************************************)
HexDigits == <<"0", "1", "2", "3", "4", "5", "6", "7", "8", "9", "a", "b", "c", "d", "e", "f">>
UpperDigits == <<"0", "1", "2", "3", "4", "5", "6", "7", "8", "9", "A", "B", "C", "D", "E", "F">>
\* bytes.fromhex raised ValueError (no byte has this value)
ValueError == <<-1>>
\* an index past the end of the data raised IndexError
IndexError == [raised |-> "IndexError"]
\* the ValueError of bytes.fromhex leaves from_hex
FromHexError == [raised |-> "ValueError"]

\* (variant: a byte below 16 is written without its leading zero)
hex_byte_unpadded(b) ==
  IF b < 16 THEN <<HexDigits[b + 1]>> ELSE <<HexDigits[(b \div 16) + 1], HexDigits[(b % 16) + 1]>>

\* two lowercase hex digits of one byte
hex_byte(b) == <<HexDigits[(b \div 16) + 1], HexDigits[(b % 16) + 1]>>

RECURSIVE bytes_hex(_)
\* bytes.hex()
bytes_hex(bs) == IF bs = <<>> THEN <<>> ELSE hex_byte(Head(bs)) \o bytes_hex(Tail(bs))

is_hex_digit(c) == \E i \in 1..16 : HexDigits[i] = c \/ UpperDigits[i] = c
hex_value(c) == (CHOOSE i \in 1..16 : HexDigits[i] = c \/ UpperDigits[i] = c) - 1

RECURSIVE hex_pairs(_)
hex_pairs(cs) ==
  IF cs = <<>> THEN <<>>
  ELSE <<16 * hex_value(cs[1]) + hex_value(cs[2])>> \o hex_pairs(SubSeq(cs, 3, Len(cs)))

\* bytes.fromhex(): ASCII whitespace is skipped, then pairs of hex digits
\* are read; anything else is a ValueError
bytes_fromhex(str) ==
  LET cs == SelectSeq(str, LAMBDA c : c \notin Whitespace)
  IN IF Len(cs) % 2 = 0 /\ \A i \in 1..Len(cs) : is_hex_digit(cs[i])
       THEN hex_pairs(cs)
       ELSE ValueError

(***************************************************************************)
(* FLASH_DATA records: PairPacket, FeatureData, FlashData.                 *)
(***************************************************************************)
FLASH_DATA_SIZE == 40
NUM_FEATURES == 3
FieldWidth == 8

\* bytes.ljust(width, b'\x00')
ljust(bs, width) == IF Len(bs) >= width THEN bs ELSE bs \o [i \in 1..(width - Len(bs)) |-> 0]

\* data[lo:hi]
slice(data, lo, hi) == SubSeq(data, lo + 1, IF hi < Len(data) THEN hi ELSE Len(data))

\* (variant: an overlong field is not cut to the field width)
PairPacket_pack_uncut(p) ==
  ljust(p.car_id, FieldWidth) \o ljust(p.password, FieldWidth) \o ljust(p.pin, FieldWidth)

PairPacket_pack(p) ==
  slice(ljust(p.car_id, FieldWidth), 0, 8) \o slice(ljust(p.password, FieldWidth), 0, 8)
    \o slice(ljust(p.pin, FieldWidth), 0, 8)

PairPacket_unpack(data) ==
  [car_id |-> slice(data, 0, 8), password |-> slice(data, 8, 16), pin |-> slice(data, 16, 24)]

FeatureData_pack(f) ==
  slice(ljust(f.car_id, FieldWidth), 0, 8) \o <<f.num_active>>
    \o ljust(slice(f.features, 0, NUM_FEATURES), NUM_FEATURES)

\* (variant: the feature bytes are read one position early)
FeatureData_unpack_shifted(data) ==
  IF Len(data) < 9 THEN IndexError
  ELSE [car_id |-> slice(data, 0, 8), num_active |-> data[9], features |-> slice(data, 8, 11)]

\* data[8] raises IndexError on data shorter than nine bytes
FeatureData_unpack(data) ==
  IF Len(data) < 9 THEN IndexError
  ELSE [car_id |-> slice(data, 0, 8), num_active |-> data[9], features |-> slice(data, 9, 12)]

FlashData_pack(f) ==
  ljust(<<IF f.paired THEN 1 ELSE 0>> \o PairPacket_pack(f.pair_info)
          \o FeatureData_pack(f.feature_info),
        FLASH_DATA_SIZE)

\* data[0] raises IndexError on empty data, FeatureData.unpack on short data
FlashData_unpack(data) ==
  IF Len(data) < 1 \/ FeatureData_unpack(slice(data, 25, 37)) = IndexError THEN IndexError
  ELSE [paired |-> data[1] # 0,
        pair_info |-> PairPacket_unpack(slice(data, 1, 25)),
        feature_info |-> FeatureData_unpack(slice(data, 25, 37))]

FlashData_to_hex(f) == bytes_hex(FlashData_pack(f))
FlashData_from_hex(str) ==
  IF bytes_fromhex(str) = ValueError THEN FromHexError ELSE FlashData_unpack(bytes_fromhex(str))

\* valid field values: exactly eight bytes, bytes 0..255
Fields8 ==
  { [i \in 1..8 |-> 0],
    <<84, 69, 83, 84, 67, 65, 82, 49>>,
    <<57, 57, 57, 57, 57, 57, 0, 0>>,
    <<0, 255, 16, 15, 10, 9, 171, 0>> }
ByteVals == {0, 9, 16, 171, 255}
FeatureLists == {<<0, 0, 0>>, <<1, 2, 3>>, <<255, 0, 16>>}
FlashDatas ==
  [paired : BOOLEAN,
   pair_info : [car_id : {<<84, 69, 83, 84, 67, 65, 82, 49>>, [i \in 1..8 |-> 0]},
                password : Fields8, pin : Fields8],
   feature_info : [car_id : Fields8, num_active : ByteVals, features : FeatureLists]]

FlashRoundTrip(f) ==
  /\ fn = NoFn
  /\ fn' = [op |-> "FlashData", arg |-> f,
            res |-> [packed |-> FlashData_pack(f),
                     unpacked |-> FlashData_unpack(FlashData_pack(f)),
                     hex |-> FlashData_to_hex(f),
                     from_hex |-> FlashData_from_hex(FlashData_to_hex(f))]]
  /\ UNCHANGED <<hvars, io, proj>>

\* byte strings of every length up to MaxBytes
MaxBytes == 3
ByteStrings == UNION {[1..n -> ByteVals] : n \in 0..MaxBytes}

HexRoundTrip(bs) ==
  /\ fn = NoFn
  /\ fn' = [op |-> "hex", arg |-> bs,
            res |-> [hex |-> bytes_hex(bs), back |-> bytes_fromhex(bytes_hex(bs))]]
  /\ UNCHANGED <<hvars, io, proj>>

\* field values of any length: empty, short, exact, one too long, much too long
AnyFields ==
  { <<>>,
    <<49, 50, 51>>,
    <<84, 69, 83, 84, 67, 65, 82, 49>>,
    <<1, 2, 3, 4, 5, 6, 7, 8, 9>>,
    <<255, 254, 253, 252, 251, 250, 249, 248, 247, 246, 245, 244>> }
AnyFlashDatas ==
  [paired : BOOLEAN,
   pair_info : [car_id : AnyFields,
                password : {<<>>, <<1, 2, 3, 4, 5, 6, 7, 8, 9>>},
                pin : {<<49, 50, 51>>, <<1, 2, 3, 4, 5, 6, 7, 8, 9>>}],
   feature_info : [car_id : AnyFields, num_active : {0, 255}, features : {<<>>, <<7>>, <<1, 2, 3>>, <<1, 2, 3, 4, 5>>}]]

\* FlashData(...).pack()
FlashPack(f) ==
  /\ fn = NoFn
  /\ fn' = [op |-> "pack", arg |-> f, res |-> FlashData_pack(f)]
  /\ UNCHANGED <<hvars, io, proj>>

(***************************************************************************)
(* Convenience queries: is_paired, is_locked, get_unlock_count,            *)
(* get_flash_data.  Each sends its command, parses the reply line that     *)
(* send_recv returned and raises RuntimeError unless the response is a     *)
(* success.  A result is [raised, value].                                  *)
(***************************************************************************)
Raised(kind) == [raised |-> kind, value |-> PyNone]
Returned(value) == [raised |-> "none", value |-> value]

RECURSIVE decimal(_)
\* the number written by decimal digits (the first ten of HexDigits)
decimal(cs) ==
  IF cs = <<>> THEN 0 ELSE 10 * decimal(SubSeq(cs, 1, Len(cs) - 1)) + hex_value(cs[Len(cs)])

\* int(value): TypeError for None, surrounding whitespace ignored,
\* ValueError unless decimal digits remain
int(value) ==
  IF value = PyNone THEN Raised("TypeError")
  ELSE IF strip(value) # <<>>
          /\ \A i \in 1..Len(strip(value)) : \E k \in 1..10 : HexDigits[k] = strip(value)[i]
         THEN Returned(decimal(strip(value)))
         ELSE Raised("ValueError")

\* (variant: the success flag of the response is not looked at)
is_paired_unchecked(reply) == Returned(parse_response(reply).value = <<"1">>)

is_paired(reply) ==
  LET resp == parse_response(reply)
  IN IF ~resp.success THEN Raised("RuntimeError") ELSE Returned(resp.value = <<"1">>)

is_locked(reply) ==
  LET resp == parse_response(reply)
  IN IF ~resp.success THEN Raised("RuntimeError") ELSE Returned(resp.value = <<"1">>)

get_unlock_count(reply) ==
  LET resp == parse_response(reply)
  IN IF ~resp.success THEN Raised("RuntimeError") ELSE int(resp.value)

get_flash_data(reply) ==
  LET resp == parse_response(reply)
  IN IF ~resp.success THEN Raised("RuntimeError")
     ELSE IF resp.value = PyNone THEN Raised("TypeError")
     ELSE IF FlashData_from_hex(resp.value) = FromHexError THEN Raised("ValueError")
     ELSE IF FlashData_from_hex(resp.value) = IndexError THEN Raised("IndexError")
     ELSE Returned(FlashData_from_hex(resp.value))

\* what the device may write in answer to a query: nothing (timeout), an
\* undecodable byte, a well-formed getFlashData answer, or a head of
\* LineHead with a short tail
QueryReplies ==
  {Empty, <<"xFF", "\n">>}
    \cup { OkPrefix
            \o FlashData_to_hex([paired |-> TRUE,
                                 pair_info |-> [car_id |-> <<84, 69, 83, 84, 67, 65, 82, 49>>,
                                                password |-> [i \in 1..8 |-> 0],
                                                pin |-> <<57, 57, 57, 57, 57, 57, 0, 0>>],
                                 feature_info |-> [car_id |-> <<84, 69, 83, 84, 67, 65, 82, 49>>,
                                                   num_active |-> 171,
                                                   features |-> <<1, 2, 3>>]])
            \o <<"\n">> }
    \cup {h \o t \o e : h \in LineHead,
                         t \in {<<>>, <<"1">>, <<"0">>, <<"5">>, <<" ", "5">>, <<"5", "b">>,
                                <<"1", "2">>, <<"1", " ">>},
                         e \in {<<"\n">>, <<"\r", "\n">>}}

\* the four queries on a device whose reply to the command is `raw`;
\* send_recv returns the line decoded and stripped
Query(raw) ==
  /\ fn = NoFn
  /\ fn' = [op |-> "query", arg |-> raw,
            res |-> [is_paired |-> is_paired(strip(decode(raw))),
                     is_locked |-> is_locked(strip(decode(raw))),
                     get_unlock_count |-> get_unlock_count(strip(decode(raw))),
                     get_flash_data |-> get_flash_data(strip(decode(raw)))]]
  /\ UNCHANGED <<hvars, io, proj>>

InitCodec == Init

NextCodec ==
  \/ \E line \in ResponseInputs : ParseResponse(line)
  \/ \E f \in FlashDatas : FlashRoundTrip(f)
  \/ \E bs \in ByteStrings : HexRoundTrip(bs)
  \/ \E f \in AnyFlashDatas : FlashPack(f)
  \/ \E raw \in QueryReplies : Query(raw)

SpecCodec == InitCodec /\ [][NextCodec]_vars

C13_SuccessExactlyForOkForms ==
  fn.op = "parse_response" =>
    /\ fn.res.success <=> MatchesOkForm(strip(fn.arg))
    /\ strip(fn.arg) = OK => fn.res = Response(TRUE, PyNone, PyNone)
    /\ startswith(strip(fn.arg), OkPrefix) =>
         fn.res = Response(TRUE, SubSeq(strip(fn.arg), 5, Len(strip(fn.arg))), PyNone)

C13_Witness ==
  /\ fn.op = "parse_response"
  /\ fn.arg = <<"O", "K", ":", " ", "5">>
  /\ fn.res = Response(TRUE, <<"5">>, PyNone)

\* C14 (as claimed): for every line matching ^ERROR(: (.*))?$, the bare
\* line `ERROR` included, parse_response returns a failure whose error is
\* the reason part of the line (no reason for the bare line).
C14_ErrorFormGivesReason ==
  (fn.op = "parse_response" /\ MatchesErrorForm(strip(fn.arg))) =>
    /\ ~fn.res.success
    /\ IF strip(fn.arg) = ErrorWord
         THEN fn.res.error \in {PyNone, Empty}
         ELSE fn.res.error = SubSeq(strip(fn.arg), 8, Len(strip(fn.arg)))

\* C14 (amended): for every line beginning with `ERROR: ` parse_response
\* returns a failure whose error is the rest of the line; the bare line
\* `ERROR` is not an error form for it and gives a failure whose error is
\* `Unparseable: ERROR`.
C14_ErrorPrefixGivesReason ==
  fn.op = "parse_response" =>
    /\ startswith(strip(fn.arg), ErrorPrefix) =>
         fn.res = Response(FALSE, PyNone, SubSeq(strip(fn.arg), 8, Len(strip(fn.arg))))
    /\ strip(fn.arg) = ErrorWord =>
         fn.res = Response(FALSE, PyNone, <<"U", "n", "p", "a", "r", "s", "e", "a", "b", "l", "e", ":", " ", "E", "R", "R", "O", "R">>)

C14_Witness ==
  /\ fn.op = "parse_response"
  /\ fn.arg = ErrorWord \o <<"\n">>
  /\ ~fn.res.success
  /\ fn.res.error # PyNone

\* C15: for every valid FlashData f, unpack(pack(f)) = f and
\* from_hex(to_hex(f)) = f.
C15_FlashDataRoundTrip ==
  fn.op = "FlashData" =>
    /\ fn.res.unpacked = fn.arg
    /\ fn.res.from_hex = fn.arg
    /\ Len(fn.res.packed) = FLASH_DATA_SIZE
    /\ Len(fn.res.hex) = 2 * FLASH_DATA_SIZE

C15_Witness ==
  /\ fn.op = "FlashData"
  /\ fn.arg.paired
  /\ fn.arg.pair_info.pin = <<57, 57, 57, 57, 57, 57, 0, 0>>
  /\ fn.arg.feature_info.features = <<255, 0, 16>>
  /\ fn.arg.feature_info.num_active = 255
  /\ fn.res.from_hex = fn.arg

\* C16: for every byte string b, the empty one included, decoding the hex
\* encoding of b gives b again.
C16_HexRoundTrip ==
  fn.op = "hex" =>
    /\ fn.res.back = fn.arg
    /\ Len(fn.res.hex) = 2 * Len(fn.arg)

C16_Witness ==
  /\ fn.op = "hex"
  /\ fn.arg = <<9, 171, 0>>
  /\ fn.res.hex = <<"0", "9", "a", "b", "0", "0">>

C16_WitnessEmpty ==
  /\ fn.op = "hex"
  /\ fn.arg = <<>>
  /\ fn.res.back = <<>>

\* the field as it lies in the packed record: cut to `width`, zero-padded
Stored(field, width) == [i \in 1..width |-> IF i <= Len(field) THEN field[i] ELSE 0]

\* C24: for a FlashData whose fields have any length, pack() gives exactly
\* FLASH_DATA_SIZE bytes: paired at offset 0, the three pair fields at 1, 9
\* and 17, the feature car_id at 25, num_active at 33, the features at 34,
\* each field cut or zero-padded to its width, and zeros from 37 on.
C24_PackFixedLayout ==
  fn.op = "pack" =>
    /\ Len(fn.res) = FLASH_DATA_SIZE
    /\ fn.res[1] = (IF fn.arg.paired THEN 1 ELSE 0)
    /\ SubSeq(fn.res, 2, 9) = Stored(fn.arg.pair_info.car_id, 8)
    /\ SubSeq(fn.res, 10, 17) = Stored(fn.arg.pair_info.password, 8)
    /\ SubSeq(fn.res, 18, 25) = Stored(fn.arg.pair_info.pin, 8)
    /\ SubSeq(fn.res, 26, 33) = Stored(fn.arg.feature_info.car_id, 8)
    /\ fn.res[34] = fn.arg.feature_info.num_active
    /\ SubSeq(fn.res, 35, 37) = Stored(fn.arg.feature_info.features, 3)
    /\ SubSeq(fn.res, 38, 40) = <<0, 0, 0>>

C24_Witness ==
  /\ fn.op = "pack"
  /\ Len(fn.arg.pair_info.car_id) = 12
  /\ Len(fn.arg.pair_info.password) = 0
  /\ Len(fn.arg.feature_info.car_id) = 9
  /\ Len(fn.arg.feature_info.features) = 5
  /\ Len(fn.res) = 40
  /\ fn.res[34] = 255

\* C28: is_paired, is_locked, get_unlock_count and get_flash_data raise
\* RuntimeError whenever the reply is empty (timeout), an ERROR line or
\* unparseable; is_paired and is_locked return False only after a success
\* response whose value is not `1`, and True only for `OK: 1`.
C28_FailedExchangeRaises ==
  fn.op = "query" =>
    LET reply == strip(decode(fn.arg))
    IN /\ ~MatchesOkForm(reply) =>
            /\ fn.res.is_paired.raised = "RuntimeError"
            /\ fn.res.is_locked.raised = "RuntimeError"
            /\ fn.res.get_unlock_count.raised = "RuntimeError"
            /\ fn.res.get_flash_data.raised = "RuntimeError"
       /\ MatchesOkForm(reply) =>
            /\ fn.res.is_paired = Returned(reply = <<"O", "K", ":", " ", "1">>)
            /\ fn.res.is_locked = Returned(reply = <<"O", "K", ":", " ", "1">>)
            /\ fn.res.get_unlock_count.raised # "RuntimeError"
            /\ fn.res.get_flash_data.raised # "RuntimeError"

C28_Witness ==
  /\ fn.op = "query"
  /\ fn.arg = Empty
  /\ fn.res.is_paired.raised = "RuntimeError"
  /\ fn.res.get_flash_data.raised = "RuntimeError"

C28_WitnessError ==
  /\ fn.op = "query"
  /\ strip(fn.arg) = <<"E", "R", "R", "O", "R", ":", " ", "5", "b">>
  /\ fn.res.is_locked.raised = "RuntimeError"
  /\ fn.res.get_unlock_count.raised = "RuntimeError"

C28_WitnessFlash ==
  /\ fn.op = "query"
  /\ Len(fn.arg) = 85
  /\ fn.res.get_flash_data.raised = "none"
  /\ fn.res.get_flash_data.value.feature_info.num_active = 171
  /\ fn.res.get_unlock_count.raised = "ValueError"

C28_WitnessTrue ==
  /\ fn.op = "query"
  /\ fn.arg = <<"O", "K", ":", " ", "1", "\r", "\n">>
  /\ fn.res.is_paired = Returned(TRUE)
  /\ fn.res.get_unlock_count = Returned(1)

C28_WitnessFalse ==
  /\ fn.op = "query"
  /\ strip(fn.arg) = <<"O", "K", ":", " ", "5">>
  /\ fn.res.is_paired = Returned(FALSE)
  /\ fn.res.get_unlock_count = Returned(5)

(***************************************************************************)
(* Channel I/O on a deployed device: DeployedDevice.send, recv, send_recv  *)
(* and the command builder cmd_enable.  The behaviours start where deploy  *)
(* has just returned the first device to the test; the test then makes up  *)
(* to MaxIO channel calls.  The device answers a command with one line or  *)
(* not at all, and its answer may arrive after the receive has timed out.  *)
(***************************************************************************)
MaxIO == 3
\* timeout=None
NoTimeout == -1
\* the timeout the command helpers pass (cmd_btn_press, cmd_restart)
CommandTimeout == 2
RecvTimeouts == {NoTimeout, CommandTimeout}
Commands == {<<"i", "s", "P", "a", "i", "r", "e", "d">>, <<"b", "t", "n", "P", "r", "e", "s", "s", "\n">>}
ResponseLines == {<<"O", "K", ":", " ", "1", "\n">>, <<"E", "R", "R", "O", "R", ":", " ", "x", "\n">>}
EnablePrefix == <<"e", "n", "a", "b", "l", "e", " ">>

\* the first device deploy returned, and its Serial
TheDev == 1
TheSer == devs[TheDev].serial

InitChannel ==
  /\ mode \in Modes
  /\ pc = "test"
  /\ calls = 1
  /\ port_idx = IF mode = "hardware" THEN 1 ELSE 0
  /\ exe_idx = IF mode = "hardware" THEN 0 ELSE 1
  /\ deployed = <<1>>
  /\ host_vsps = IF mode = "hardware" THEN <<>> ELSE <<2>>
  /\ devs = <<[role |-> "paired_fob", serial |-> 1,
               platform |-> IF mode = "hardware" THEN "hw" ELSE "x86",
               pid |-> IF mode = "hardware" THEN 0 ELSE 1,
               vsp |-> IF mode = "hardware" THEN 0 ELSE 2,
               closes |-> 0, testcloses |-> 0, steps |-> <<>>, swallowed |-> "none"]>>
  /\ sers = <<[NewSerial(1, IF mode = "hardware" THEN 0 ELSE 2)
                 EXCEPT !.reads = 1, !.startup = OkStarted]>>
  /\ links = IF mode = "hardware" THEN <<>> ELSE <<NewLink("board"), NewLink("host")>>
  /\ procs = IF mode = "hardware" THEN <<>>
             ELSE <<NewProc(2, 1)>>
  /\ cur = [NewCall("paired_fob")
              EXCEPT !.port = IF mode = "hardware" THEN 1 ELSE 0,
                     !.builds = 1, !.binary = TRUE,
                     !.flashes = IF mode = "hardware" THEN 1 ELSE 0,
                     !.ser = 1,
                     !.vsp = IF mode = "hardware" THEN 0 ELSE 2,
                     !.board_port = IF mode = "hardware" THEN 0 ELSE 1,
                     !.pid = IF mode = "hardware" THEN 0 ELSE 1,
                     !.dev = 1]
  /\ held = {1}
  /\ failure = NoFailure
  /\ td_idx = 1
  /\ nbuild = 1
  /\ nflash = IF mode = "hardware" THEN 1 ELSE 0
  /\ fn = NoFn
  /\ io = NoIO
  /\ proj = NoProj

\* send: if not data.endswith('\n'): data += '\n'
send_data(data) == IF data # <<>> /\ data[Len(data)] = "\n" THEN data ELSE data \o <<"\n">>

\* recv: if timeout is not None: self.serial.timeout = timeout
recv_override(ser, timeout) ==
  IF timeout # NoTimeout THEN [ser EXCEPT !.timeout = timeout] ELSE ser

\* (variant: the timeout is put back after the return only, not in a finally)
recv_restore_on_success(ser, old_timeout, raised) ==
  IF raised THEN ser ELSE [ser EXCEPT !.timeout = old_timeout]

\* recv: finally: self.serial.timeout = old_timeout
recv_restore(ser, old_timeout, raised) == [ser EXCEPT !.timeout = old_timeout]

\* recv(timeout) on Serial `ser`; `raised` says that readline() raised.
\* Gives the Serial afterwards and the line returned.
recv(ser, timeout, raised) ==
  LET old_timeout == ser.timeout
      ser1 == recv_override(ser, timeout)
      line == IF raised THEN NoLine ELSE strip(decode(readline(ser1)))
      ser2 == IF raised \/ ser1.buf = <<>> THEN ser1 ELSE [ser1 EXCEPT !.buf = Tail(@)]
  IN [ser |-> recv_restore(ser2, old_timeout, raised), line |-> line]

\* the device's answer to a command: written before the receive (intime),
\* still to be written (late), or none
answered(ser, resp, intime) ==
  IF resp # NoLine /\ intime THEN [ser EXCEPT !.buf = Append(@, resp)] ELSE ser

pending_out(out, resp, intime) == IF resp # NoLine /\ ~intime THEN Append(out, resp) ELSE out

\* the command numbers that go with answered and pending_out
answered_tags(tags, n, resp, intime) == IF resp # NoLine /\ intime THEN Append(tags, n) ELSE tags
pending_tags(outtags, n, resp, intime) ==
  IF resp # NoLine /\ ~intime THEN Append(outtags, n) ELSE outtags

\* the command number of the line readline() takes from the buffer (0: none)
read_tag(tags, raised) == IF raised \/ tags = <<>> THEN 0 ELSE Head(tags)
rest_tags(tags, raised) == IF raised \/ tags = <<>> THEN tags ELSE Tail(tags)

ChSend(data, resp) ==
  /\ pc = "test"
  /\ io.n < MaxIO
  /\ io' = [io EXCEPT !.n = @ + 1, !.nsent = @ + 1, !.sent = send_data(data),
                      !.out = pending_out(@, resp, FALSE),
                      !.outtags = pending_tags(@, io.nsent + 1, resp, FALSE),
                      !.op = "send", !.timeout = NoTimeout, !.result = NoLine,
                      !.error = "none"]
  /\ UNCHANGED <<hvars, fn, proj>>

ChRecv(timeout, raised) ==
  /\ pc = "test"
  /\ io.n < MaxIO
  /\ sers' = [sers EXCEPT ![TheSer] = recv(@, timeout, raised).ser]
  /\ io' = [io EXCEPT !.n = @ + 1, !.op = "recv", !.timeout = timeout,
                      !.result = recv(sers[TheSer], timeout, raised).line,
                      !.rtag = read_tag(io.tags, raised),
                      !.tags = rest_tags(@, raised),
                      !.error = IF raised THEN "SerialException" ELSE "none"]
  /\ UNCHANGED <<mode, pc, calls, port_idx, exe_idx, deployed, host_vsps, devs, links,
                 procs, cur, held, failure, td_idx, nbuild, nflash, fn, proj>>

\* send_recv(data, timeout): send(data), then recv(timeout)
send_recv(data, timeout, raised, resp, intime, op, arg) ==
  /\ sers' = [sers EXCEPT ![TheSer] = recv(answered(@, resp, intime), timeout, raised).ser]
  /\ io' = [io EXCEPT !.n = @ + 1, !.nsent = @ + 1, !.sent = send_data(data),
                      !.out = pending_out(@, resp, intime),
                      !.outtags = pending_tags(@, io.nsent + 1, resp, intime),
                      !.rtag = read_tag(answered_tags(io.tags, io.nsent + 1, resp, intime), raised),
                      !.tags = rest_tags(answered_tags(@, io.nsent + 1, resp, intime), raised),
                      !.op = op, !.arg = arg, !.timeout = timeout,
                      !.result = recv(answered(sers[TheSer], resp, intime), timeout, raised).line,
                      !.error = IF raised THEN "SerialException" ELSE "none"]
  /\ UNCHANGED <<mode, pc, calls, port_idx, exe_idx, deployed, host_vsps, devs, links,
                 procs, cur, held, failure, td_idx, nbuild, nflash, fn, proj>>

ChSendRecv(data, timeout, raised, resp, intime) ==
  /\ pc = "test"
  /\ io.n < MaxIO
  /\ send_recv(data, timeout, raised, resp, intime, "send_recv", <<>>)

\* (variant: the payload is padded or cut to a fixed size of 16 bytes)
enable_line_fixed(feature_package) ==
  EnablePrefix \o bytes_hex(slice(ljust(feature_package, 16), 0, 16))

\* f"enable {hex_data}" with hex_data = feature_package.hex()
enable_line(feature_package) == EnablePrefix \o bytes_hex(feature_package)

\* the payloads given to cmd_enable: n equal bytes
PayloadLens == {0, 15, 16, 17}
Payloads == {[i \in 1..n |-> b] : n \in PayloadLens, b \in {0, 171}}

\* cmd_enable(device, feature_package)
CmdEnable(feature_package, raised, resp, intime) ==
  /\ pc = "test"
  /\ io.n < MaxIO
  /\ send_recv(enable_line(feature_package), NoTimeout, raised, resp, intime,
               "cmd_enable", feature_package)

\* the device writes an answer that did not arrive in time
DeviceWrite ==
  /\ pc = "test"
  /\ io.out # <<>>
  /\ sers' = [sers EXCEPT ![TheSer].buf = Append(@, Head(io.out))]
  /\ io' = [io EXCEPT !.out = Tail(@), !.tags = Append(@, Head(io.outtags)),
                      !.outtags = Tail(@)]
  /\ UNCHANGED <<mode, pc, calls, port_idx, exe_idx, deployed, host_vsps, devs, links,
                 procs, cur, held, failure, td_idx, nbuild, nflash, fn, proj>>

NextChannel ==
  \/ \E data \in Commands, resp \in ResponseLines \cup {NoLine} : ChSend(data, resp)
  \/ \E timeout \in RecvTimeouts, raised \in BOOLEAN : ChRecv(timeout, raised)
  \/ \E data \in Commands, timeout \in RecvTimeouts, raised \in BOOLEAN,
        resp \in ResponseLines \cup {NoLine}, intime \in BOOLEAN :
       ChSendRecv(data, timeout, raised, resp, intime)
  \/ \E feature_package \in Payloads, raised \in BOOLEAN,
        resp \in ResponseLines \cup {NoLine}, intime \in BOOLEAN :
       CmdEnable(feature_package, raised, resp, intime)
  \/ DeviceWrite

SpecChannel == InitChannel /\ [][NextChannel]_vars

\* the fixed payload size of the spec's example (a 16-byte key)
KeySize == 16

C19_RecvRestoresTimeout ==
  [][io'.n > io.n => sers'[TheSer].timeout = sers[TheSer].timeout]_vars

C19_Witness ==
  /\ io.n >= 2
  /\ io.op = "recv"
  /\ io.timeout = CommandTimeout
  /\ io.error = "SerialException"
  /\ sers[TheSer].timeout = DEFAULT_TIMEOUT

\* C26 (as claimed): the line send_recv(cmd) returns is the device's answer
\* to that cmd: an answer written after the receive of its command timed out
\* is never returned as the answer to a later command.
C26_ReplyAnswersItsCommand ==
  (io.op \in {"send_recv", "cmd_enable"} /\ io.rtag # 0) => io.rtag = io.nsent

(***************************************************************************)
(* project.py (src/project.py): the command line parser of main(), the     *)
(* build, flash and deploy subcommands, and the command lines the harness  *)
(* issues to it (build_role and flash_hardware of conftest.py).  A command *)
(* line is the sequence of tokens after `python3 project.py`; tokens are   *)
(* matched whole (no harness token is an abbreviation of an option).       *)
(***************************************************************************)
AVAILABLE_PLATFORMS == <<"stm32", "tm4c", "x86">>
AVAILABLE_ROLES == <<"car", "paired_fob", "unpaired_fob">>
PlatformChoices == {AVAILABLE_PLATFORMS[i] : i \in DOMAIN AVAILABLE_PLATFORMS}

\* Python None and False as argument values
None == "None"
False == "False"
truthy(v) == v \notin {None, False, ""}

\* add_argument(flag, dest=..., required=..., choices=...); kind "flag" is
\* action="store_true"; choices {} stands for type=str without choices
Opt(flag, dest, kind, required, choices) ==
  [flag |-> flag, dest |-> dest, kind |-> kind, required |-> required, choices |-> choices]

GlobalOptions ==
  { Opt("-v", "verbose", "flag", FALSE, {}),
    Opt("--verbose", "verbose", "flag", FALSE, {}),
    Opt("--dry-run", "dry_run", "flag", FALSE, {}) }

BuildOptions ==
  { Opt("--platform", "platform", "value", FALSE, PlatformChoices),
    Opt("--role", "role", "value", FALSE, Roles),
    Opt("--id", "id", "value", FALSE, {}),
    Opt("--pin", "pin", "value", FALSE, {}),
    Opt("--unlock-flag", "unlock_flag", "value", FALSE, {}),
    Opt("--feature1-flag", "feature1_flag", "value", FALSE, {}),
    Opt("--feature2-flag", "feature2_flag", "value", FALSE, {}),
    Opt("--feature3-flag", "feature3_flag", "value", FALSE, {}),
    Opt("--test-build", "test_build", "flag", FALSE, {}) }

FlashOptions ==
  { Opt("--platform", "platform", "value", TRUE, PlatformChoices),
    Opt("--role", "role", "value", TRUE, Roles),
    Opt("--port", "port", "value", FALSE, {}) }

DeployOptions ==
  { Opt("--platform", "platform", "value", TRUE, PlatformChoices),
    Opt("--role", "role", "value", TRUE, Roles),
    Opt("--id", "id", "value", FALSE, {}),
    Opt("--pin", "pin", "value", FALSE, {}),
    Opt("--port", "port", "value", FALSE, {}) }

\* the subparsers modelled, by command name
options_of(command) ==
  IF command = "build" THEN BuildOptions
  ELSE IF command = "flash" THEN FlashOptions
  ELSE DeployOptions

\* a token argparse takes for an option string, not for a value
OptionLike(tok) ==
  tok \in {o.flag : o \in GlobalOptions \cup BuildOptions \cup FlashOptions \cup DeployOptions}
            \cup {"--bin"}

\* the namespace before any token is read: None for values, False for flags
defaults(options) ==
  [d \in {o.dest : o \in options} |->
     IF \E o \in options : o.dest = d /\ o.kind = "flag" THEN False ELSE None]

\* merge of two namespaces
merge(f, g) == [d \in DOMAIN f \cup DOMAIN g |-> IF d \in DOMAIN g THEN g[d] ELSE f[d]]

RECURSIVE parse_options(_, _, _)
\* the option tokens of one parser, left to right; gives [error, args]
parse_options(options, toks, args) ==
  IF toks = <<>>
    THEN IF \E o \in options : o.required /\ args[o.dest] = None
           THEN [error |-> "required", args |-> args]
           ELSE [error |-> "none", args |-> args]
  ELSE IF ~\E o \in options : o.flag = Head(toks)
    THEN [error |-> "unrecognized", args |-> args]
  ELSE LET o == CHOOSE o \in options : o.flag = Head(toks)
       IN IF o.kind = "flag"
            THEN parse_options(options, Tail(toks), [args EXCEPT ![o.dest] = "True"])
          ELSE IF Len(toks) < 2 \/ OptionLike(toks[2])
            THEN [error |-> "expected one argument", args |-> args]
          ELSE IF o.choices # {} /\ toks[2] \notin o.choices
            THEN [error |-> "invalid choice", args |-> args]
          ELSE parse_options(options, Tail(Tail(toks)), [args EXCEPT ![o.dest] = toks[2]])

RECURSIVE parse_args(_, _)
\* parser.parse_args(): global options, the command, the command's options
parse_args(toks, args) ==
  IF toks = <<>>
    THEN [error |-> "none", args |-> merge(args, [command |-> None])]
  ELSE IF \E o \in GlobalOptions : o.flag = Head(toks)
    THEN parse_args(Tail(toks),
                    [args EXCEPT ![(CHOOSE o \in GlobalOptions : o.flag = Head(toks)).dest] = "True"])
  ELSE IF Head(toks) \notin {"build", "flash", "deploy"}
    THEN [error |-> "invalid choice", args |-> merge(args, [command |-> None])]
  ELSE LET sub == parse_options(options_of(Head(toks)), Tail(toks),
                                defaults(options_of(Head(toks))))
       IN [error |-> sub.error,
           args |-> merge(merge(args, sub.args), [command |-> Head(toks)])]

\* getattr(args, name, default)
getattr(args, name, default) == IF name \in DOMAIN args THEN args[name] ELSE default

\* build_scons_args: one SCons configuration (key=value arguments; a key
\* is left out when its value is None or empty, test=1 when test_build)
build_scons_args(platform, role, id_val, pin, unlock_flag, feature1_flag, feature2_flag, feature3_flag, test_build) ==
  [platform |-> platform, role |-> role,
   id |-> IF truthy(id_val) THEN id_val ELSE None,
   pin |-> IF truthy(pin) THEN pin ELSE None,
   unlock_flag |-> IF truthy(unlock_flag) THEN unlock_flag ELSE None,
   feature1_flag |-> IF truthy(feature1_flag) THEN feature1_flag ELSE None,
   feature2_flag |-> IF truthy(feature2_flag) THEN feature2_flag ELSE None,
   feature3_flag |-> IF truthy(feature3_flag) THEN feature3_flag ELSE None,
   test |-> IF truthy(test_build) THEN "1" ELSE None]

\* the configuration of one role on one platform
config_for(args, platform, role, id_val, pin) ==
  build_scons_args(platform, role, id_val, pin,
                   getattr(args, "unlock_flag", None), getattr(args, "feature1_flag", None),
                   getattr(args, "feature2_flag", None), getattr(args, "feature3_flag", None),
                   getattr(args, "test_build", False))

\* pattern 1: for platform in AVAILABLE_PLATFORMS: for role in AVAILABLE_ROLES
all_configs(args) ==
  [k \in 1..(Len(AVAILABLE_PLATFORMS) * Len(AVAILABLE_ROLES)) |->
     LET platform == AVAILABLE_PLATFORMS[((k - 1) \div Len(AVAILABLE_ROLES)) + 1]
         role == AVAILABLE_ROLES[((k - 1) % Len(AVAILABLE_ROLES)) + 1]
     IN IF role = "paired_fob" THEN config_for(args, platform, role, args["id"], args["pin"])
        ELSE IF role = "car" THEN config_for(args, platform, role, args["id"], None)
        ELSE config_for(args, platform, role, None, None)]

\* get_build_configs_for_target: [none, list]; none is the Python None
get_build_configs_for_target(args) ==
  LET \* hasattr(args, 'id') and args.id
      has_id == "id" \in DOMAIN args /\ truthy(args["id"])
      has_pin == "pin" \in DOMAIN args /\ truthy(args["pin"])
      role == args["role"]
      platform == args["platform"]
  IN IF has_id /\ has_pin /\ ~truthy(role) /\ ~truthy(platform)
       THEN [none |-> FALSE, list |-> all_configs(args)]
     ELSE IF role = "car" /\ has_id /\ truthy(platform)
       THEN [none |-> FALSE, list |-> <<config_for(args, platform, "car", args["id"], None)>>]
     ELSE IF role = "paired_fob" /\ has_id /\ has_pin /\ truthy(platform)
       THEN [none |-> FALSE,
             list |-> <<config_for(args, platform, "paired_fob", args["id"], args["pin"])>>]
     ELSE IF role = "unpaired_fob" /\ truthy(platform)
       THEN [none |-> FALSE, list |-> <<config_for(args, platform, "unpaired_fob", None, None)>>]
     ELSE IF ~truthy(role) /\ ~truthy(platform) /\ ~has_id
       THEN [none |-> TRUE, list |-> <<>>]
     ELSE [none |-> FALSE, list |-> <<>>]

\* RoleConfig values of the convenience fixtures
RoleConfigs ==
  { [role |-> "car", id |-> "1", pin |-> None],
    [role |-> "paired_fob", id |-> "1", pin |-> "123456"],
    [role |-> "unpaired_fob", id |-> None, pin |-> None] }

\* build_role: the command line after `python3 project.py`
build_role_cmd(cfg, platform) ==
  <<"build", "--platform", platform, "--role", cfg.role, "--test-build">>
    \o (IF truthy(cfg.id) THEN <<"--id", cfg.id>> ELSE <<>>)
    \o (IF truthy(cfg.pin) THEN <<"--pin", cfg.pin>> ELSE <<>>)

\* flash_hardware: the command line after `python3 project.py`
flash_hardware_cmd(platform, port, binary) ==
  <<"flash", "--platform", platform, "--port", port, "--bin", binary>>

\* what the harness runs: builds for x86 (simulation) or the platform of
\* --using, flashes for the platform and a port of --using
HarnessCommands ==
  {build_role_cmd(cfg, platform) : cfg \in RoleConfigs, platform \in {"x86", "stm32"}}
    \cup {flash_hardware_cmd(platform, port, "hardware/stm32/build/car_1/car_1") :
            platform \in {"stm32", "tm4c"}, port \in {"/dev/ttyUSB0", "/dev/ttyUSB1"}}

\* command lines typed by a user
UserCommands ==
  { <<"deploy", "--platform", "stm32", "--role", "car", "--id", "1">>,
    <<"deploy", "--platform", "stm32", "--role", "paired_fob", "--id", "1", "--pin", "123456",
      "--port", "/dev/ttyUSB0">>,
    <<"deploy", "--platform", "tm4c", "--role", "unpaired_fob">>,
    <<"deploy", "--platform", "stm32", "--role", "car">>,
    <<"deploy", "--platform", "stm32", "--role", "paired_fob", "--id", "1">>,
    <<"--dry-run", "deploy", "--platform", "x86", "--role", "unpaired_fob">>,
    <<"deploy", "--role", "car", "--id", "1">>,
    <<"deploy", "--platform", "avr", "--role", "car", "--id", "1">>,
    <<"build", "--id", "1", "--pin", "123456">>,
    <<"-v", "build", "--id", "1", "--pin", "123456", "--test-build">>,
    <<"build">>,
    <<"build", "--role", "car", "--platform", "x86">>,
    <<"build", "--role", "paired_fob", "--platform", "x86", "--id">>,
    <<"flash", "--platform", "stm32", "--role", "car">>,
    <<"flash", "--platform", "stm32", "--role", "car", "--port", "/dev/ttyUSB0">>,
    <<"flash", "--role", "car">>,
    <<"monitor">>,
    <<>> }

\* return codes of the subprocesses project.py runs
ReturnCodes == {0, 1, 2}

\* sys.exit(rc)
exit(pr, rc) == [pr EXCEPT !.pc = "exit", !.rc = rc]

\* (variant: deploy goes on to flash whatever the build returned)
deploy_aborts_never(build_result) == FALSE

\* deploy_command: if build_result != 0: return build_result
deploy_aborts(build_result) == build_result # 0

\* build_command returns `result`: to main for `build`, to deploy_command
\* for `deploy`, which returns it or goes on to flash_command
build_returns(pr, result) ==
  IF pr.args["command"] = "deploy" /\ ~deploy_aborts(result)
    THEN [pr EXCEPT !.build_result = result, !.pc = "flash"]
    ELSE exit([pr EXCEPT !.build_result = result], result)

\* build_command up to its first subprocess
build_command(pr) ==
  LET configs == get_build_configs_for_target(pr.args)
  IN IF configs.none \/ configs.list = <<>>
       THEN build_returns([pr EXCEPT !.configs = configs], 1)
       ELSE [pr EXCEPT !.configs = configs, !.i = 1,
                       !.pc = IF truthy(pr.args["dry_run"]) THEN "scons" ELSE "prepare"]

\* main(): parse the command line (argparse exits with 2 on an error),
\* print help without a command, else call the command's function up to its
\* first subprocess
Main(origin, argv) ==
  /\ proj.pc = "idle"
  /\ LET parsed == parse_args(argv, defaults(GlobalOptions))
         pr == [proj EXCEPT !.origin = origin, !.argv = argv, !.error = parsed.error,
                            !.args = parsed.args]
         args == parsed.args
     IN proj' = IF parsed.error # "none" THEN exit(pr, 2)
                ELSE IF args["command"] = None THEN exit(pr, 0)
                ELSE IF ~truthy(args["role"]) \/ ~truthy(args["platform"])
                  THEN IF args["command"] = "build" THEN build_command(pr) ELSE exit(pr, 1)
                ELSE IF args["command"] = "flash" THEN [pr EXCEPT !.pc = "flash"]
                ELSE build_command(pr)
  /\ UNCHANGED <<hvars, fn, io>>

\* build_command: prepare_build_environment for the next configuration
\* (the secret generation script returns rc)
Prepare(rc) ==
  /\ proj.pc = "prepare"
  /\ LET pr == [proj EXCEPT !.steps = Append(@, [call |-> "secret", config |-> proj.i, rc |-> rc])]
     IN proj' = IF rc # 0 THEN build_returns(pr, rc)
                ELSE IF proj.i < Len(proj.configs.list) THEN [pr EXCEPT !.i = @ + 1]
                ELSE [pr EXCEPT !.pc = "scons", !.i = 1]
  /\ UNCHANGED <<hvars, fn, io>>

\* (variant: run_scons goes on after a failing configuration)
scons_failed_ignored(rc) == FALSE

\* run_scons: if result.returncode != 0: return result.returncode
scons_failed(rc) == rc # 0

\* run_scons: subprocess.run(["scons", ...]) for the next configuration
Scons(rc) ==
  /\ proj.pc = "scons"
  /\ LET pr == [proj EXCEPT !.steps = Append(@, [call |-> "scons", config |-> proj.i, rc |-> rc])]
     IN proj' = IF scons_failed(rc) THEN build_returns(pr, rc)
                ELSE IF proj.i < Len(proj.configs.list) THEN [pr EXCEPT !.i = @ + 1]
                ELSE build_returns(pr, 0)
  /\ UNCHANGED <<hvars, fn, io>>

\* flash_command: subprocess.run(flash_cmd); return result.returncode
FlashRun(rc) ==
  /\ proj.pc = "flash"
  /\ proj' = exit([proj EXCEPT !.steps = Append(@, [call |-> "flash", config |-> 0, rc |-> rc])],
                  rc)
  /\ UNCHANGED <<hvars, fn, io>>

NextProject ==
  \/ \E argv \in HarnessCommands : Main("harness", argv)
  \/ \E argv \in UserCommands : Main("user", argv)
  \/ \E rc \in ReturnCodes : Prepare(rc)
  \/ \E rc \in ReturnCodes : Scons(rc)
  \/ \E rc \in ReturnCodes : FlashRun(rc)

SpecProject == Init /\ [][NextProject]_vars

\* C29 (as claimed): every command line the harness issues to project.py is
\* accepted by the subcommand: the parser takes every argument of the flash
\* and build invocations, and a build invocation matches a build pattern.
C29_HarnessCommandsAccepted ==
  (proj.origin = "harness" /\ proj.pc # "idle") =>
    /\ proj.error = "none"
    /\ proj.args["command"] = "build" => (~proj.configs.none /\ proj.configs.list # <<>>)

Calls(name) == {k \in DOMAIN proj.steps : proj.steps[k].call = name}

\* C30: deploy runs the build before the flash and flashes only after a
\* build that returned 0; a non-zero build result is deploy's return code
\* and no flash runs; otherwise the flash's return code is returned; and
\* run_scons runs no configuration after one that failed.
C30_DeployBuildsThenFlashes ==
  /\ \A j, k \in Calls("scons") : j < k => proj.steps[j].rc = 0
  /\ \A k \in Calls("scons") :
       proj.steps[k].rc # 0 => (proj.build_result = proj.steps[k].rc /\ k = Len(proj.steps))
  /\ (proj.error = "none" /\ proj.pc # "idle" /\ proj.args["command"] = "deploy") =>
       /\ \A k \in Calls("flash") :
            /\ proj.build_result = 0
            /\ \A j \in Calls("scons") \cup Calls("secret") : j < k
            /\ Calls("scons") # {}
       /\ Cardinality(Calls("flash")) <= 1
       /\ (proj.pc = "exit" /\ proj.build_result # 0) =>
            (Calls("flash") = {} /\ proj.rc = proj.build_result)
       /\ (proj.pc = "exit" /\ proj.build_result = 0) =>
            \E k \in Calls("flash") : proj.rc = proj.steps[k].rc
       /\ proj.pc = "exit" => proj.build_result # -1

C30_Witness ==
  /\ proj.pc = "exit"
  /\ proj.args["command"] = "deploy"
  /\ proj.build_result = 2
  /\ proj.rc = 2
  /\ Calls("scons") # {}
  /\ Calls("flash") = {}

C30_WitnessFlash ==
  /\ proj.pc = "exit"
  /\ proj.args["command"] = "deploy"
  /\ proj.build_result = 0
  /\ Calls("flash") # {}
  /\ proj.rc = 1

C30_WitnessStopsAtFirst ==
  /\ proj.pc = "exit"
  /\ Len(proj.configs.list) = 9
  /\ Cardinality(Calls("scons")) = 4
  /\ proj.rc = 1

====
